---- MODULE Spec2Model ----
(***************************************************************************)
(* k8s-pod-deleter: the controller of pkg/controller (Once, Loop, Stop),   *)
(* the cluster it lists pods from and deletes pods in, and the callers     *)
(* that drive it (a library caller of Once; cmd's run-forever mode).       *)
(*                                                                         *)
(* Time is counted in abstract units; a pod's CreationTimestamp, the       *)
(* controller's grace and the time `now` are numbers of such units.        *)
(***************************************************************************)
EXTENDS Integers, Sequences, FiniteSets, TLC

\* ---------------------------------------------------------------- bounds

\* The longest pod listing.
MaxPods == 2
\* The latest time at which a pod is evaluated.
MaxTime == 2
\* Stop() calls are counted up to MaxStops (the counter saturates).
MaxStops == 2

\* ------------------------------------------------------------------ data

\* A nil *ContainerStateTerminated / *ContainerStateWaiting.
Nil == "<nil>"

PodPending == "Pending"
PodRunning == "Running"
PodSucceeded == "Succeeded"
PodFailed == "Failed"
PodUnknown == "Unknown"
PodPhases == {PodPending, PodRunning, PodSucceeded, PodFailed, PodUnknown}

DefaultReasons == <<"CrashLoopBackOff", "Error">>

\* v1.ContainerState: the Reason of its Terminated and of its Waiting member
\* (Nil for a nil pointer).
ContainerStatus(terminated, waiting) ==
    [Terminated |-> terminated, Waiting |-> waiting]

\* The container statuses a pod is listed with.
StatusLists ==
    { <<>>,
      <<ContainerStatus(Nil, Nil)>>,
      <<ContainerStatus(Nil, "CrashLoopBackOff")>>,
      <<ContainerStatus(Nil, "crashloopbackoff")>>,
      <<ContainerStatus("OOMKilled", "CrashLoopBackOff")>>,
      <<ContainerStatus(Nil, Nil), ContainerStatus("Error", Nil)>>,
      <<ContainerStatus("Error", Nil), ContainerStatus(Nil, "CrashLoopBackOff")>> }

\* What a pod is listed with besides its identity.
PodShape(phase, created, statuses) ==
    [Phase |-> phase, CreationTimestamp |-> created, ContainerStatuses |-> statuses]

\* The pods of a listing: every phase on an old pod and a young Pending and
\* Running pod, each with a status that the default reasons accept, and every
\* status list on an old Running pod.
PodShapes ==
    { PodShape(ph, 0, <<ContainerStatus(Nil, "CrashLoopBackOff")>>) : ph \in PodPhases }
    \cup { PodShape(ph, 1, <<ContainerStatus(Nil, "CrashLoopBackOff")>>) :
             ph \in {PodPending, PodRunning} }
    \cup { PodShape(PodRunning, 0, sl) : sl \in StatusLists }

\* The k-th pod of the cluster: names repeat across the two namespaces.
PodNamespace(k) == IF k % 2 = 1 THEN "default" ELSE "kube-system"
PodName(k) == <<"pod0", "pod0", "pod1", "pod1", "pod2", "pod2">>[k]

makePod(k, shape) ==
    [Namespace |-> PodNamespace(k), Name |-> PodName(k),
     Phase |-> shape.Phase, CreationTimestamp |-> shape.CreationTimestamp,
     ContainerStatuses |-> shape.ContainerStatuses]

Clusters(shapes) ==
    UNION { { [k \in 1..n |-> makePod(k, f[k])] : f \in [1..n -> shapes] } :
            n \in 0..MaxPods }

\* The options New is given: WithDryRun, WithGrace and, when withReasons,
\* WithReasons(reasons).
Option(dryRun, withReasons, reasons) ==
    [dryRun |-> dryRun, grace |-> 1, withReasons |-> withReasons, reasons |-> reasons]

Options ==
    { Option(FALSE, FALSE, <<>>), Option(TRUE, FALSE, <<>>),
      Option(FALSE, TRUE, <<>>), Option(FALSE, TRUE, <<"OOMKilled">>) }

\* The flags --reasons and --dry-run of the command line.
Flags == [reasons : {DefaultReasons, <<"OOMKilled">>}, dryRun : BOOLEAN]

\* The flags when none is given.
DefaultFlags == [reasons |-> DefaultReasons, dryRun |-> FALSE]

\* controller.New: the defaults, the options, then reasonsMap from reasons.
New(opts) ==
    LET reasons == IF opts.withReasons THEN opts.reasons ELSE DefaultReasons
    IN  [dryRun |-> opts.dryRun, grace |-> opts.grace, reasons |-> reasons,
         reasonsMap |-> {reasons[k] : k \in DOMAIN reasons}]

\* runDeleter, lines 78-85: the controller the command builds from its flags.
runDeleter(flags) == New(Option(flags.dryRun, FALSE, <<>>))

NoError == [msg |-> "nil", namespace |-> "", name |-> ""]
Running == [msg |-> "running", namespace |-> "", name |-> ""]
ListFailed == [msg |-> "failed to list pods", namespace |-> "", name |-> ""]
\* The wrapped error with the name and the namespace swapped.
DeleteFailed_Swapped(ns, nm) ==
    [msg |-> "failed to delete pod", namespace |-> nm, name |-> ns]

\* errors.Wrapf(err, "failed to delete pod %s/%s", namespace, name).
DeleteFailed(ns, nm) == [msg |-> "failed to delete pod", namespace |-> ns, name |-> nm]

\* What PodDeleter.DeletePod returns: nil, a not-found error, another error.
DeleteResults == {"nil", "NotFound", "Forbidden"}

VARIABLES
    m,          \* the mainCommand: the flags reasons and dryRun
    c,          \* the Controller: dryRun, grace, reasons, reasonsMap
    cluster,    \* the pods of the cluster, in listing order
    now,        \* the time of the latest evaluation of a pod
    ctxDone,    \* the ctx of the pass is cancelled
    pc,         \* Once: "idle", "list", "pod", "status", "done"
    pods,       \* Once: the listing
    i,          \* Once: index of the pod of the outer loop
    j,          \* Once: index of the status of the STATUS loop
    ret,        \* Once: what it returned
    evalAt,     \* per listed pod, the time at which the pass evaluated it
    calls,      \* the DeletePod calls of the pass, in order
    logged,     \* the "deleting pod" log records of the pass, in order
    loopPc,     \* Loop: "idle", "first", "select", "tick", "stop", "returned"
    loopRet,    \* Loop: what it returned
    tick,       \* a tick is waiting in the ticker's channel
    stopCalls,  \* Stop() calls so far, up to MaxStops
    stopInLoop, \* Stop() was called while this Loop() was executing
    stopInPass  \* Stop() was called while the pass in flight was iterating

onceVars == <<pc, pods, i, j, ret, evalAt, calls, logged>>
loopVars == <<loopPc, loopRet, tick, stopCalls, stopInLoop, stopInPass>>
vars == <<m, c, cluster, now, ctxDone, onceVars, loopVars>>

\* ------------------------------------------------------------ controller

\* The phase switch with PodUnknown left out of its case.
SkipPhase_NoUnknown(pod) == pod.Phase \in {PodPending, PodSucceeded}

\* The phase switch with PodFailed added to its case.
SkipPhase_AlsoFailed(pod) ==
    pod.Phase \in {PodPending, PodSucceeded, PodUnknown, PodFailed}

\* Once, lines 103-110: the phases that skip the pod.
SkipPhase(pod) == pod.Phase \in {PodPending, PodSucceeded, PodUnknown}

\* The grace check without Add(c.grace).
TooYoung_NoGrace(pod, t) == pod.CreationTimestamp > t

\* Once, line 113: CreationTimestamp.Add(c.grace).After(time.Now()).
TooYoung(pod, t) == pod.CreationTimestamp + c.grace > t

\* The reason taken from Waiting before Terminated.
StatusReason_WaitingFirst(status) ==
    IF status.Waiting # Nil THEN status.Waiting
    ELSE IF status.Terminated # Nil THEN status.Terminated
    ELSE ""

\* Once, lines 123-128: the reason of a container status.
StatusReason(status) ==
    IF status.Terminated # Nil THEN status.Terminated
    ELSE IF status.Waiting # Nil THEN status.Waiting
    ELSE ""

\* Once, line 130: the lookup in c.reasonsMap.
ReasonAccepted(reason) == reason \in c.reasonsMap

\* The delete issued whatever c.dryRun is.
IssueDelete_Always == TRUE

\* Once, line 143.
IssueDelete == ~c.dryRun

\* No error taken for a not-found error.
IsNotFound_Never(err) == FALSE

\* Once, line 147: k8sErrors.IsNotFound.
IsNotFound(err) == err = "NotFound"

\* The ctx never seen as cancelled.
CtxCancelled_Never == FALSE

\* Once, lines 92-96: the select on ctx.Done().
CtxCancelled == ctxDone

\* DeletePod called with the name and the namespace swapped.
DeleteArgs_Swapped(pod) == [namespace |-> pod.Name, name |-> pod.Namespace]

\* Once, line 144: what DeletePod is called with.
DeleteArgs(pod) == [namespace |-> pod.Namespace, name |-> pod.Name]

\* The cluster after DeletePod(ns, nm) returned err: the pod is gone when the
\* delete succeeded and when the pod was not found.
AfterDelete(ns, nm, err) ==
    IF err \in {"nil", "NotFound"}
    THEN SelectSeq(cluster, LAMBDA p : ~(p.Namespace = ns /\ p.Name = nm))
    ELSE cluster

\* Once is entered: its locals are new and the pass has made no call yet.
OnceEntered ==
    /\ pc' = "list"
    /\ ret' = Running
    /\ pods' = <<>>
    /\ i' = 1
    /\ j' = 1
    /\ evalAt' = <<>>
    /\ calls' = <<>>
    /\ logged' = <<>>

\* ListPods whose error does not end the pass.
OnceList_NoReturn ==
    /\ pc = "list"
    /\ pods' = cluster
    /\ evalAt' = [k \in DOMAIN cluster |-> {}]
    /\ pc' = "pod"
    /\ ret' \in {ret, ListFailed}
    /\ UNCHANGED <<c, m, cluster, now, ctxDone, i, j, calls, logged, loopVars>>

\* Once, lines 85-88: ListPods, which may fail.
OnceList ==
    /\ pc = "list"
    /\ \/ /\ pods' = cluster
          /\ evalAt' = [k \in DOMAIN cluster |-> {}]
          /\ pc' = "pod"
          /\ ret' = ret
       \/ /\ pods' = <<>>
          /\ evalAt' = <<>>
          /\ pc' = "done"
          /\ ret' = ListFailed
    /\ UNCHANGED <<c, m, cluster, now, ctxDone, i, j, calls, logged, loopVars>>

\* Once, lines 90-119 and 155: the head of the loop over pods, the check of
\* ctx.Done(), the phase switch and the grace check. A pod is evaluated at a
\* time t that is not before the time of the last evaluation; t is what
\* time.Now() returns in the grace check.
OncePod ==
    /\ pc = "pod"
    /\ \/ /\ i > Len(pods)
          /\ pc' = "done" /\ ret' = NoError
          /\ UNCHANGED <<i, j, evalAt, now>>
       \/ /\ i <= Len(pods) /\ CtxCancelled
          /\ pc' = "done" /\ ret' = NoError
          /\ UNCHANGED <<i, j, evalAt, now>>
       \/ /\ i <= Len(pods) /\ ~CtxCancelled
          /\ \E t \in now..MaxTime :
              /\ now' = t
              /\ evalAt' = [evalAt EXCEPT ![i] = {t}]
              /\ \/ /\ SkipPhase(pods[i])
                    /\ i' = i + 1
                    /\ UNCHANGED <<pc, j>>
                 \/ /\ ~SkipPhase(pods[i]) /\ TooYoung(pods[i], t)
                    /\ i' = i + 1
                    /\ UNCHANGED <<pc, j>>
                 \/ /\ ~SkipPhase(pods[i]) /\ ~TooYoung(pods[i], t)
                    /\ j' = 1 /\ pc' = "status"
                    /\ i' = i
          /\ ret' = ret
    /\ UNCHANGED <<c, m, cluster, ctxDone, pods, calls, logged, loopVars>>

\* Once, lines 121-152: one iteration of the STATUS loop, or its end.
OnceStatus ==
    /\ pc = "status"
    /\ LET pod == pods[i]
           statuses == pod.ContainerStatuses
       IN  \/ /\ j > Len(statuses)
              /\ i' = i + 1 /\ pc' = "pod"
              /\ UNCHANGED <<j, ret, calls, logged, cluster>>
           \/ /\ j <= Len(statuses)
              /\ ~ReasonAccepted(StatusReason(statuses[j]))
              /\ j' = j + 1
              /\ UNCHANGED <<i, pc, ret, calls, logged, cluster>>
           \/ /\ j <= Len(statuses)
              /\ ReasonAccepted(StatusReason(statuses[j]))
              /\ logged' = Append(logged,
                     [namespace |-> pod.Namespace, name |-> pod.Name,
                      Reason |-> StatusReason(statuses[j]), dryRun |-> c.dryRun])
              /\ \/ /\ ~IssueDelete
                    /\ j' = j + 1
                    /\ UNCHANGED <<i, pc, ret, calls, cluster>>
                 \/ /\ IssueDelete
                    /\ \E err \in DeleteResults :
                        /\ calls' = Append(calls,
                               [namespace |-> DeleteArgs(pod).namespace,
                                name |-> DeleteArgs(pod).name, err |-> err])
                        /\ cluster' = AfterDelete(DeleteArgs(pod).namespace,
                                                  DeleteArgs(pod).name, err)
                        /\ \/ /\ err # "nil" /\ ~IsNotFound(err)
                              /\ pc' = "done"
                              /\ ret' = DeleteFailed(pod.Namespace, pod.Name)
                              /\ UNCHANGED <<i, j>>
                           \/ /\ (err = "nil" \/ IsNotFound(err))
                              /\ j' = j + 1
                              /\ UNCHANGED <<i, pc, ret>>
    /\ UNCHANGED <<c, m, now, ctxDone, pods, evalAt, loopVars>>

\* ------------------------------------------- a caller of Once (run once)

\* A caller calls Once(ctx), with a fresh ctx or one already cancelled.
CallOnce ==
    /\ pc \in {"idle", "done"}
    /\ loopPc = "idle"
    /\ OnceEntered
    /\ ctxDone' \in BOOLEAN
    /\ UNCHANGED <<c, m, cluster, now, loopVars>>

\* The caller cancels the ctx it gave to Once while the pass runs.
CancelCtx ==
    /\ pc \in {"list", "pod", "status"}
    /\ loopPc = "idle"
    /\ ~ctxDone
    /\ ctxDone' = TRUE
    /\ UNCHANGED <<c, m, cluster, now, onceVars, loopVars>>

InitCommon ==
    /\ now = 1
    /\ ctxDone = FALSE
    /\ pc = "idle"
    /\ pods = <<>>
    /\ i = 1
    /\ j = 1
    /\ ret = Running
    /\ evalAt = <<>>
    /\ calls = <<>>
    /\ logged = <<>>
    /\ loopPc = "idle"
    /\ loopRet = Running
    /\ tick = FALSE
    /\ stopCalls = 0
    /\ stopInLoop = FALSE
    /\ stopInPass = FALSE

Init ==
    /\ m = DefaultFlags
    /\ c \in {New(opts) : opts \in Options}
    /\ cluster \in Clusters(PodShapes)
    /\ InitCommon

Next ==
    \/ CallOnce
    \/ CancelCtx
    \/ OnceList
    \/ OncePod
    \/ OnceStatus

Spec == Init /\ [][Next]_vars

\* ------------------------------------------------------- Loop and Stop

\* errors.Wrap(err, "failed to run").
FailedToRun(err) ==
    [msg |-> "failed to run", cause |-> err.msg,
     namespace |-> err.namespace, name |-> err.name]

\* Loop, lines 160-163: the ctx of the passes, then the first pass.
LoopStart ==
    /\ loopPc \in {"idle", "returned"}
    /\ pc \in {"idle", "done"}
    /\ ctxDone' = FALSE
    /\ loopPc' = "first"
    /\ loopRet' = Running
    /\ OnceEntered
    /\ tick' = FALSE
    /\ stopInLoop' = FALSE
    /\ stopInPass' = FALSE
    /\ UNCHANGED <<c, m, cluster, now, stopCalls>>

\* Loop, lines 163-167: the first pass returned; its error is returned (the
\* deferred cancel runs), else the ticker is made and Loop waits.
LoopAfterFirst ==
    /\ loopPc = "first"
    /\ pc = "done"
    /\ \/ /\ ret # NoError
          /\ loopRet' = FailedToRun(ret)
          /\ loopPc' = "returned"
          /\ ctxDone' = TRUE
       \/ /\ ret = NoError
          /\ loopPc' = "select"
          /\ UNCHANGED <<loopRet, ctxDone>>
    /\ tick' = FALSE
    /\ UNCHANGED <<c, m, cluster, now, onceVars, stopCalls, stopInLoop, stopInPass>>

\* The ticker sends a tick; its channel holds one and drops the rest.
Ticker ==
    /\ loopPc \in {"select", "tick", "stop"}
    /\ ~tick
    /\ tick' = TRUE
    /\ UNCHANGED <<c, m, cluster, now, ctxDone, onceVars>>
    /\ UNCHANGED <<loopPc, loopRet, stopCalls, stopInLoop, stopInPass>>

\* A pass started by the select without a tick received.
LoopTick_NoTick ==
    /\ loopPc = "select"
    /\ loopPc' = "tick"
    /\ OnceEntered
    /\ stopInPass' = FALSE
    /\ UNCHANGED <<c, m, cluster, now, ctxDone, loopRet, tick, stopCalls, stopInLoop>>

\* A pass started on a tick while the pass before is still running.
LoopTick_Overlap ==
    /\ loopPc \in {"select", "tick"}
    /\ tick
    /\ tick' = FALSE
    /\ loopPc' = "tick"
    /\ OnceEntered
    /\ stopInPass' = FALSE
    /\ UNCHANGED <<c, m, cluster, now, ctxDone, loopRet, stopCalls, stopInLoop>>

\* Loop, lines 169-171: the select receives a tick and starts a pass.
LoopTick ==
    /\ loopPc = "select"
    /\ tick
    /\ tick' = FALSE
    /\ loopPc' = "tick"
    /\ OnceEntered
    /\ stopInPass' = FALSE
    /\ UNCHANGED <<c, m, cluster, now, ctxDone, loopRet, stopCalls, stopInLoop>>

\* The pass of a tick returned and its error is not returned: Loop waits
\* for the next tick.
LoopAfterTick_Retry ==
    /\ loopPc = "tick"
    /\ pc = "done"
    /\ loopPc' = "select"
    /\ UNCHANGED <<c, m, cluster, now, ctxDone, onceVars>>
    /\ UNCHANGED <<loopRet, tick, stopCalls, stopInLoop, stopInPass>>

\* The pass of a tick returned and Loop returns whatever the pass returned.
LoopAfterTick_Returns ==
    /\ loopPc = "tick"
    /\ pc = "done"
    /\ loopRet' = IF ret # NoError THEN FailedToRun(ret) ELSE NoError
    /\ loopPc' = "returned"
    /\ ctxDone' = TRUE
    /\ UNCHANGED <<c, m, cluster, now, onceVars, tick, stopCalls, stopInLoop, stopInPass>>

\* Loop, lines 171-173: the pass of a tick returned.
LoopAfterTick ==
    /\ loopPc = "tick"
    /\ pc = "done"
    /\ \/ /\ ret # NoError
          /\ loopRet' = FailedToRun(ret)
          /\ loopPc' = "returned"
          /\ ctxDone' = TRUE
       \/ /\ ret = NoError
          /\ loopPc' = "select"
          /\ UNCHANGED <<loopRet, ctxDone>>
    /\ UNCHANGED <<c, m, cluster, now, onceVars, tick, stopCalls, stopInLoop, stopInPass>>

\* Loop, lines 174-176: the select received from stopChan.
LoopStopped ==
    /\ loopPc = "stop"
    /\ ctxDone' = TRUE
    /\ loopRet' = NoError
    /\ loopPc' = "returned"
    /\ UNCHANGED <<c, m, cluster, now, onceVars, tick, stopCalls, stopInLoop, stopInPass>>

\* Stop with a send that waits for a receiver.
Stop_Blocking ==
    /\ loopPc = "select"
    /\ loopPc' = "stop"
    /\ stopCalls' = IF stopCalls < MaxStops THEN stopCalls + 1 ELSE stopCalls
    /\ stopInLoop' = TRUE
    /\ UNCHANGED <<c, m, cluster, now, ctxDone, onceVars, loopRet, tick, stopInPass>>

\* Stop, lines 183-189: a send on the unbuffered stopChan that is taken only
\* when Loop is waiting in its select, and dropped (default) otherwise.
Stop ==
    /\ loopPc' = IF loopPc = "select" THEN "stop" ELSE loopPc
    /\ stopCalls' = IF stopCalls < MaxStops THEN stopCalls + 1 ELSE stopCalls
    /\ stopInLoop' = (stopInLoop \/ loopPc \in {"first", "select", "tick", "stop"})
    /\ stopInPass' = (stopInPass \/ (loopPc \in {"first", "tick"} /\ pc \in {"pod", "status"}))
    /\ UNCHANGED <<c, m, cluster, now, ctxDone, onceVars, loopRet, tick>>

\* The pods and options of the run-forever mode.
LoopShapes ==
    { PodShape(PodFailed, 0, <<ContainerStatus(Nil, "CrashLoopBackOff")>>),
      PodShape(PodRunning, 1, <<ContainerStatus(Nil, "CrashLoopBackOff")>>),
      PodShape(PodPending, 0, <<ContainerStatus(Nil, "CrashLoopBackOff")>>),
      PodShape(PodRunning, 0,
               <<ContainerStatus("Error", Nil), ContainerStatus(Nil, "CrashLoopBackOff")>>) }

LoopInit ==
    /\ m \in Flags
    /\ c = runDeleter(m)
    /\ cluster \in Clusters(LoopShapes)
    /\ InitCommon

\* The steps of the goroutine that runs Loop.
LoopSteps ==
    \/ LoopAfterFirst
    \/ LoopTick
    \/ LoopAfterTick
    \/ LoopStopped
    \/ OnceList
    \/ OncePod
    \/ OnceStatus

LoopNext ==
    \/ LoopStart
    \/ LoopSteps
    \/ Ticker
    \/ Stop

LoopSpec == LoopInit /\ [][LoopNext]_vars

\* The goroutine of Loop keeps running and the ticker keeps ticking.
FairLoopSpec == LoopSpec /\ WF_vars(LoopSteps) /\ WF_vars(Ticker)

\* ---------------------------------------------------------------- claims

\* The accepted-reasons set the controller was configured with.
AcceptedReasons == {c.reasons[k] : k \in DOMAIN c.reasons}

\* The reason of a container status: that of Terminated if present, else
\* that of Waiting if present, else the empty string.
ReasonOf(status) ==
    CASE status.Terminated # Nil -> status.Terminated
      [] status.Terminated = Nil /\ status.Waiting # Nil -> status.Waiting
      [] OTHER -> ""

HasAcceptedReason(pod) ==
    \E s \in DOMAIN pod.ContainerStatuses :
        ReasonOf(pod.ContainerStatuses[s]) \in AcceptedReasons

\* Listed pod k was at least grace old when the pass evaluated it.
OldEnough(k) ==
    \E t \in evalAt[k] : pods[k].CreationTimestamp + c.grace <= t

Eligible(k) ==
    /\ pods[k].Phase \in {PodRunning, PodFailed}
    /\ OldEnough(k)
    /\ HasAcceptedReason(pods[k])

\* The DeletePod calls of the pass that name listed pod k.
CallsFor(k) ==
    { n \in DOMAIN calls :
        calls[n].namespace = pods[k].Namespace /\ calls[n].name = pods[k].Name }

\* The listed pods a "deleting pod" record of the pass names.
LoggedPods ==
    { k \in DOMAIN pods :
        \E n \in DOMAIN logged :
            logged[n].namespace = pods[k].Namespace /\ logged[n].name = pods[k].Name }

\* The pass returned nil after the loop over pods ran to its end: it was
\* neither cut short by a cancellation nor aborted by an error.
PassComplete == pc = "done" /\ ret = NoError /\ i > Len(pods)

\* C1: in a complete non-dry-run pass every eligible listed pod gets exactly
\* one DeletePod call, however many of its statuses match.
C1_DeletedExactlyOnce ==
    (PassComplete /\ ~c.dryRun) =>
        \A k \in DOMAIN pods : Eligible(k) => Cardinality(CallsFor(k)) = 1

\* C2: a non-dry-run pass whose listing and deletes all succeed returns no
\* error, and once it has run to its end the pods left in the cluster are
\* exactly the listed pods that are not eligible.
C2_RemainingAreIneligible ==
    (/\ pc = "done"
     /\ ~c.dryRun
     /\ ret # ListFailed
     /\ \A n \in DOMAIN calls : calls[n].err = "nil")
    => /\ ret = NoError
       /\ i > Len(pods) =>
            {cluster[n] : n \in DOMAIN cluster}
                = {pods[k] : k \in {h \in DOMAIN pods : ~Eligible(h)}}

C2_Witness ==
    /\ PassComplete
    /\ ~c.dryRun
    /\ \A n \in DOMAIN calls : calls[n].err = "nil"
    /\ \E k, h \in DOMAIN pods : Eligible(k) /\ ~Eligible(h)
    /\ Len(cluster) = 1

\* C3: no DeletePod call of any pass names a pod listed with phase Pending,
\* Succeeded or Unknown.
C3_PhaseNeverDeleted ==
    \A k \in DOMAIN pods :
        pods[k].Phase \in {PodPending, PodSucceeded, PodUnknown} => CallsFor(k) = {}

C3_Witness ==
    /\ calls # <<>>
    /\ \E k \in DOMAIN pods :
        /\ k < i
        /\ pods[k].Phase = PodUnknown
        /\ pods[k].CreationTimestamp + c.grace <= now
        /\ HasAcceptedReason(pods[k])

\* C4: no DeletePod call names a pod that was evaluated at a time before
\* CreationTimestamp + grace; a pod exactly grace old is not protected.
C4_YoungNeverDeleted ==
    \A k \in DOMAIN pods :
        CallsFor(k) # {} =>
            /\ evalAt[k] # {}
            /\ \A t \in evalAt[k] : ~(t < pods[k].CreationTimestamp + c.grace)

C4_Witness ==
    \E k, h \in DOMAIN pods :
        /\ CallsFor(k) # {}
        /\ evalAt[k] = {pods[k].CreationTimestamp + c.grace}
        /\ h < i
        /\ pods[h].Phase \in {PodRunning, PodFailed}
        /\ HasAcceptedReason(pods[h])
        /\ \E t \in evalAt[h] : t < pods[h].CreationTimestamp + c.grace
        /\ CallsFor(h) = {}

\* C5: no DeletePod call names a pod none of whose container status reasons
\* is a member of the accepted-reasons set; so none names a pod without
\* container statuses, and none is made when the set is empty.
C5_UnacceptedNeverDeleted ==
    /\ \A k \in DOMAIN pods : ~HasAcceptedReason(pods[k]) => CallsFor(k) = {}
    /\ \A k \in DOMAIN pods : pods[k].ContainerStatuses = <<>> => CallsFor(k) = {}
    /\ c.reasons = <<>> => calls = <<>>

C5_Witness ==
    /\ calls # <<>>
    /\ \E k \in DOMAIN pods :
        /\ k < i
        /\ pods[k].Phase = PodRunning
        /\ OldEnough(k)
        /\ \E s \in DOMAIN pods[k].ContainerStatuses :
              /\ pods[k].ContainerStatuses[s].Terminated # Nil
              /\ pods[k].ContainerStatuses[s].Waiting \in AcceptedReasons
        /\ CallsFor(k) = {}

\* C6: with dry-run no DeletePod call is made and a pass whose listing
\* succeeded returns nil; with or without dry-run, the pods a complete pass
\* judged eligible (logged as "deleting pod") are the eligible listed pods.
C6_DryRunNeverDeletes ==
    /\ c.dryRun => calls = <<>>
    /\ (c.dryRun /\ pc = "done" /\ ret # ListFailed) => ret = NoError
    /\ PassComplete => LoggedPods = {k \in DOMAIN pods : Eligible(k)}

C6_Witness ==
    /\ c.dryRun
    /\ PassComplete
    /\ \E k, h \in DOMAIN pods : k \in LoggedPods /\ h \notin LoggedPods
    /\ Len(cluster) = Len(pods)

\* C7: a Stop() called while Loop() is executing leads to Loop() returning
\* (with success, or with the error of a pass that failed meanwhile).
C7_StopEndsLoop == stopInLoop ~> (loopPc = "returned")

\* C8: after a Stop() called while the pass in flight is iterating over the
\* pods, the next per-pod check of the pass ends the pass: no further pod is
\* evaluated or deleted.
C8_StopCancelsPass ==
    [][(stopInPass /\ pc = "pod" /\ i <= Len(pods))
        => (pc' = "done" \/ (pc' = pc /\ i' = i))]_vars

\* C9: Stop() can always be taken, in every state of the controller: it
\* never waits for Loop() (and the code never closes stopChan, so the send
\* cannot panic).
C9_StopNeverBlocks == ENABLED Stop

C9_Witness ==
    /\ stopCalls = MaxStops
    /\ stopInLoop
    /\ loopPc = "returned"
    /\ loopRet = NoError

\* C10: a not-found error of DeletePod is not returned by Once, and in a
\* pass that ran to its end every eligible pod listed after the pod that was
\* not found got its DeletePod call.
C10_NotFoundContinues ==
    /\ (pc = "done" /\ ret.msg = "failed to delete pod") =>
          (calls # <<>> /\ calls[Len(calls)].err \notin {"nil", "NotFound"})
    /\ PassComplete =>
          \A n \in DOMAIN calls : calls[n].err = "NotFound" =>
              \A k, h \in DOMAIN pods :
                  (n \in CallsFor(k) /\ k < h /\ Eligible(h)) => CallsFor(h) # {}

C10_Witness ==
    /\ PassComplete
    /\ \E n, q \in DOMAIN calls :
        /\ n < q
        /\ calls[n].err = "NotFound"
        /\ \E k, h \in DOMAIN pods : k < h /\ n \in CallsFor(k) /\ q \in CallsFor(h)

\* C11: a DeletePod error other than not-found ends the pass at once: it is
\* the last call of the pass, and Once has returned an error that names the
\* namespace and the name of the pod of that call.
C11_DeleteErrorAborts ==
    \A n \in DOMAIN calls :
        calls[n].err \notin {"nil", "NotFound"} =>
            /\ n = Len(calls)
            /\ pc = "done"
            /\ ret.msg = "failed to delete pod"
            /\ ret.namespace = pods[i].Namespace /\ ret.name = pods[i].Name
            /\ n \in CallsFor(i)

C11_Witness ==
    /\ pc = "done"
    /\ ret.msg = "failed to delete pod"
    /\ \E h \in DOMAIN pods :
        /\ i < h
        /\ pods[h].Phase \in {PodRunning, PodFailed}
        /\ pods[h].CreationTimestamp + c.grace <= now
        /\ HasAcceptedReason(pods[h])
        /\ CallsFor(h) = {}

\* C12: when ListPods failed, Once has returned the listing error and the
\* pass listed, logged and deleted nothing.
C12_ListErrorDeletesNothing ==
    ret = ListFailed =>
        pc = "done" /\ pods = <<>> /\ calls = <<>> /\ logged = <<>>

C12_Witness ==
    /\ ret = ListFailed
    /\ ~c.dryRun
    /\ \E n \in DOMAIN cluster :
        /\ cluster[n].Phase \in {PodRunning, PodFailed}
        /\ cluster[n].CreationTimestamp + c.grace <= now
        /\ HasAcceptedReason(cluster[n])

\* C13: a pass that reaches a pod with its ctx cancelled returns nil in that
\* step: the pod is not evaluated, no call is made and the calls made before
\* stand.
C13_CancelStopsPass ==
    [][(pc = "pod" /\ i <= Len(pods) /\ ctxDone) =>
          (pc' = "done" /\ ret' = NoError /\ UNCHANGED <<calls, cluster, evalAt, i>>)]_vars

C13_Witness ==
    /\ pc = "done" /\ ret = NoError /\ ctxDone
    /\ calls # <<>>
    /\ i = 2 /\ Len(pods) = 2
    /\ pods[2].Phase \in {PodRunning, PodFailed}
    /\ pods[2].CreationTimestamp + c.grace <= now
    /\ HasAcceptedReason(pods[2])
    /\ evalAt[2] = {}
    /\ Len(cluster) = 1

\* C19: every DeletePod call of a pass names the namespace and the name of
\* a pod of the listing of that pass, and the calls follow the order of the
\* listing.
C19_CallsFollowListing ==
    /\ \A n \in DOMAIN calls : \E k \in DOMAIN pods : n \in CallsFor(k)
    /\ \A n, q \in DOMAIN calls : \A k, h \in DOMAIN pods :
          (n < q /\ n \in CallsFor(k) /\ q \in CallsFor(h)) => k <= h

C19_Witness ==
    /\ PassComplete
    /\ Len(pods) = 2
    /\ \E n, q \in DOMAIN calls :
          n < q /\ n \in CallsFor(1) /\ q \in CallsFor(2)

\* C14: when a pass run by Loop() has returned an error, the next step of
\* Loop() returns that error; no pass is started after it.
C14_PassErrorEndsLoop ==
    [][(loopPc \in {"first", "tick"} /\ pc = "done" /\ ret # NoError) =>
          \/ UNCHANGED <<loopPc, pc, ret>>
          \/ /\ loopPc' = "returned"
             /\ loopRet' = [msg |-> "failed to run", cause |-> ret.msg,
                            namespace |-> ret.namespace, name |-> ret.name]
             /\ UNCHANGED <<pc, ret>>]_vars

C14_Witness ==
    /\ loopPc = "returned"
    /\ loopRet.msg = "failed to run"
    /\ pc = "done"
    /\ ret.msg = "failed to delete pod"
    /\ Len(pods) < MaxPods

\* C15: the first act of Loop() is to start a pass; while that pass runs no
\* tick is made or received and no stop signal is received; every other
\* pass starts in a step of the select that receives a tick.
C15_FirstPassThenTicks ==
    [][/\ (loopPc \in {"idle", "returned"} /\ loopPc' \notin {"idle", "returned"})
            => (loopPc' = "first" /\ pc' = "list" /\ ~tick')
       /\ loopPc = "first"
            => (loopPc' \in {"first", "select", "returned"} /\ ~tick /\ ~tick')
       /\ (pc' = "list" /\ pc # "list" /\ loopPc \notin {"idle", "returned"})
            => (loopPc = "select" /\ loopPc' = "tick" /\ tick /\ ~tick')]_vars

C15_Witness ==
    /\ loopPc = "tick"
    /\ pc = "status"
    /\ stopCalls >= 1

\* C16: within a Loop() a pass starts only when no pass is running, also
\* when a tick is waiting while a pass runs.
C16_PassesNeverOverlap ==
    [][(pc' = "list" /\ loopPc' \in {"first", "tick"} /\ (pc # "list" \/ loopPc # loopPc'))
          => pc \in {"idle", "done"}]_vars

C16_Witness ==
    /\ loopPc = "tick"
    /\ pc \in {"pod", "status"}
    /\ tick

\* C17: the pods the running command deletes are pods with a container
\* status whose reason is one of the reasons of the --reasons flag.
C17_FlagReasonsApply ==
    \A k \in DOMAIN pods :
        CallsFor(k) # {} =>
            \E s \in DOMAIN pods[k].ContainerStatuses :
                ReasonOf(pods[k].ContainerStatuses[s]) \in {m.reasons[n] : n \in DOMAIN m.reasons}

\* C18: once Stop() has been called the signal stays: the select of Loop()
\* never takes a tick and starts another pass after it.
C18_StopSignalPersists ==
    [][stopCalls >= 1 => ~(loopPc = "select" /\ loopPc' = "tick")]_vars

\* C20: Loop() returns nil only out of the receive from stopChan, which only
\* a Stop() called while Loop() waits in its select brings about, and it
\* returns an error only when a pass of its own has returned one; a signal
\* received is followed by nothing but that one return.
C20_LoopReturnsTwoWays ==
    [][/\ (loopPc # "returned" /\ loopPc' = "returned") =>
            \/ loopPc = "stop" /\ loopRet' = NoError
            \/ /\ loopPc \in {"first", "tick"} /\ pc = "done" /\ ret # NoError
               /\ loopRet'.msg = "failed to run"
       /\ (loopPc # "stop" /\ loopPc' = "stop") =>
            (loopPc = "select" /\ stopCalls' >= 1 /\ stopInLoop'
             /\ UNCHANGED <<onceVars, cluster, ctxDone, tick, loopRet>>)
       /\ loopPc = "stop" => loopPc' \in {"stop", "returned"}]_vars

C20_Witness ==
    /\ loopPc = "returned"
    /\ loopRet = NoError
    /\ stopCalls = 1
    /\ calls # <<>>

====
